---- MODULE Spec2Model ----
(***************************************************************************)
(* Skills-inventory clustering: the Lambda handler (src/lambda/handler.py) *)
(* and the SageMaker training script (src/sagemaker/train_clustering.py).  *)
(*                                                                         *)
(* Numbers.  Feature values are small naturals (fixed-point units).  A     *)
(* scaled value (x - mean) / std is kept exactly as the pair               *)
(*   num = n*x - Sum(x),  den2 = n*Sum(x^2) - Sum(x)^2                     *)
(* (value = num / sqrt(den2)); StandardScaler replaces a zero scale by 1.  *)
(* A silhouette score is an integer rank 0..MaxScore of a real in (-1, 1],  *)
(* in order.  The rank -1 (InitBestScore) stands for -1.0 itself, which no  *)
(* partition made by fit_predict scores: a sample scores -1 only when all   *)
(* rows of another cluster coincide with it, and fit_predict gives          *)
(* coinciding rows the same label.                                          *)
(*                                                                         *)
(* Library calls.  KMeans(...).fit_predict and silhouette_score are        *)
(* scikit-learn calls.  They are modelled by their contract: fit_predict   *)
(* is a function of (X, n_clusters, random_state) that raises when there   *)
(* are fewer samples than clusters, gives identical rows the same label    *)
(* and yields min(k, distinct rows) non-empty clusters, numbered in an     *)
(* order that depends on the seed; silhouette_score raises unless          *)
(* 2 <= n_labels <= n_samples - 1 and is otherwise a function of the       *)
(* partition whose value is an input of the model.                         *)
(***************************************************************************)
EXTENDS Integers, Sequences, FiniteSets, TLC

VARIABLES
    prog,        \* which program this behaviour runs: "lambda", "train", "features"
    table,       \* Data Source: the per-skill rows the Athena query yields
    athena,      \* state of the query execution inside Athena
    pc,          \* position of the running program
    run,         \* number of invocations so far
    state,       \* handler.py:95  last state the polling loop observed
    df,          \* handler.py:113 parsed DataFrame (sequence of rows)
    prepared,    \* handler.py:135 result of prepare_clustering_data
    clusters,    \* handler.py:181 result of perform_clustering
    search,      \* best_k and best_score when the k-search ended
    scores,      \* k -> score, for the candidates the k-search scored
    loop_labels, \* k -> labels, for the candidates the k-search fitted
    silhouette,  \* silhouette_score as a function: number of clusters -> score
    sink,        \* Result Sink: the objects put to S3
    response,    \* handler.py:50/61 the returned response
    error,       \* the exception that ended the run ("none" if none)
    prev,        \* clusters and search of the previous invocation on the snapshot
    records,     \* train_clustering.py:84 raw employee-skill records
    trained      \* train_clustering.py:99 what train_kmeans returned

vars == <<prog, table, athena, pc, run, state, df, prepared, clusters, search, scores,
          loop_labels, silhouette, sink, response, error, prev, records, trained>>

\* optional values: {} is Python's None / not yet assigned, {x} holds x
The(o) == CHOOSE x \in o : TRUE

----------------------------------------------------------------------------
(* Bounds *)

MaxSkills == 8
MaxTrainSkills == 10
MaxScore == 1
MaxRecords == 2
MaxEmployees == 2
MaxNames == 2
MaxYears == 1

(* Program constants *)

KStart == 3
KStop == 8
TrainKStop == 10
DefaultK == 5
InitBestScore == -1
RandomState == 42
Beginner == 1
Expert == 4

ScoreSet == 0..MaxScore

----------------------------------------------------------------------------
(* Small helpers *)

Min(a, b) == IF a < b THEN a ELSE b

\* the values of f (f is evaluated once, then bound to g)
Range(f) == UNION {{g[x] : x \in DOMAIN g} : g \in {f}}

RECURSIVE SumSeq(_)
SumSeq(s) == IF s = <<>> THEN 0 ELSE Head(s) + SumSeq(Tail(s))

\* the position of x among the numbers of S in ascending order
Rank(S, x) == Cardinality({y \in S : y <= x})

\* the numbers of S in ascending order, as pandas groupby sorts its keys
SetToSeq(S) == [j \in 1..Cardinality(S) |-> CHOOSE x \in S : Rank(S, x) = j]

----------------------------------------------------------------------------
(* Data Source: per-skill feature rows *)

Features == <<"employee_count", "avg_proficiency", "avg_experience">>


\* n rows, one per skill; the dimensions in `flat` are identical for every
\* skill, the others take `spread` different values in turn.
MakeTable(n, flat, spread) ==
    [i \in 1..n |->
        [skill           |-> i,
         employee_count  |-> 1 + (IF 1 \in flat THEN 0 ELSE (i - 1) % spread),
         avg_proficiency |-> 1 + (IF 2 \in flat THEN 0 ELSE (i - 1) % spread),
         avg_experience  |-> IF 3 \in flat THEN 0 ELSE (i - 1) % spread]]

\* up to maxn skills: two-valued columns with any set of flat dimensions,
\* four-valued columns, and maxn skills that all differ
TableFamily(maxn) ==
    {MakeTable(n, flat, 2) : n \in 0..maxn, flat \in SUBSET {1, 2, 3}}
    \cup {MakeTable(n, {}, 4) : n \in 0..maxn}
    \cup {MakeTable(maxn, {}, maxn)}

Tables == TableFamily(MaxSkills)

TrainTables == TableFamily(MaxTrainSkills)

Header == [skill |-> "skill", employee_count |-> "employee_count",
           avg_proficiency |-> "avg_proficiency", avg_experience |-> "avg_experience"]

\* athena_client.get_query_results: the header row, then the data rows
QueryResults(t) == <<Header>> \o t

\* for row in results['ResultSet']['Rows'][1:]
ParseResults(results) == Tail(results)

----------------------------------------------------------------------------
(* prepare_clustering_data: StandardScaler().fit_transform *)

Column(d, f) == [i \in 1..Len(d) |-> d[i][f]]

Squares(c) == [i \in 1..Len(c) |-> c[i] * c[i]]

VarNum(c) == Len(c) * SumSeq(Squares(c)) - SumSeq(c) * SumSeq(c)

ZeroVariance(c) == VarNum(c) = 0

\* sklearn _handle_zeros_in_scale: a zero scale becomes 1, no error is raised
ScaleSq(c) == IF ZeroVariance(c) THEN 1 ELSE VarNum(c)

ScaleColumn(c) ==
    [i \in 1..Len(c) |-> [num |-> Len(c) * c[i] - SumSeq(c), den2 |-> ScaleSq(c)]]

\* fit_transform raises ValueError on an array with 0 samples
ScalerRaises(d) == Len(d) = 0

FitTransform(d) ==
    [i \in 1..Len(d) |->
        [j \in 1..Len(Features) |-> ScaleColumn(Column(d, Features[j]))[i]]]

PrepareClusteringData(d) ==
    [features |-> FitTransform(d),
     skills |-> [i \in 1..Len(d) |-> d[i].skill],
     original_data |-> d]

----------------------------------------------------------------------------
(* KMeans(n_clusters=k, random_state=seed, n_init=10).fit_predict(X) *)

NumDistinct(X) == Cardinality(Range(X))

SameRows(X, i) == {j \in 1..i : X[j] = X[i]}

FirstIndex(X, i) == CHOOSE j \in SameRows(X, i) : \A h \in SameRows(X, i) : j <= h

\* rank of row i among the distinct rows, by first occurrence, from 0
RowClass(X, i) == Cardinality({X[j] : j \in 1..FirstIndex(X, i)}) - 1

KMeansRaises(X, k) == Len(X) < k

NumClusters(X, k) == Min(k, NumDistinct(X))

KMeans(X, k, seed) ==
    [i \in 1..Len(X) |-> ((RowClass(X, i) % k) + seed) % NumClusters(X, k)]

NumLabels(labels) == Cardinality(Range(labels))

\* silhouette_score: "Valid values are 2 to n_samples - 1 (inclusive)"
SilhouetteRaises(X, labels) ==
    NumLabels(labels) < 2 \/ NumLabels(labels) > Len(X) - 1

----------------------------------------------------------------------------
(* perform_clustering: the k-search, the final fit, the statistics *)

ImprovesOrTies(score, best_score) == score >= best_score

\* if score > best_score
Improves(score, best_score) == score > best_score

\* kmeans = KMeans(n_clusters=k, random_state=42, n_init=10); fit_predict(X)
LoopFit(X, k) == KMeans(X, k, RandomState)

AllCounts == 1..(TrainKStop - 1)

LowestScores == [c \in AllCounts |-> 0]

\* for k in range(3, 8): fit, score, keep the best; sil is silhouette_score
\* as a function of the number of clusters of the partition it is given
RECURSIVE HandlerSearch(_, _, _, _, _)
HandlerSearch(X, k, best_k, best_score, sil) ==
    IF k >= KStop
    THEN [best_k |-> best_k, best_score |-> best_score, error |-> "none", scored |-> {}]
    ELSE IF KMeansRaises(X, k) \/ SilhouetteRaises(X, LoopFit(X, k))
    THEN [best_k |-> best_k, best_score |-> best_score, error |-> "ValueError",
          scored |-> {}]
    ELSE LET score == sil[NumLabels(LoopFit(X, k))]
             rest == IF Improves(score, best_score)
                     THEN HandlerSearch(X, k + 1, k, score, sil)
                     ELSE HandlerSearch(X, k + 1, best_k, best_score, sil)
         IN [rest EXCEPT !.scored = @ \cup {k}]

FinalFitUnseeded(X, best_k) == KMeans(X, best_k, 0)

\* kmeans = KMeans(n_clusters=best_k, random_state=42, n_init=10)
FinalFit(X, best_k) == KMeans(X, best_k, RandomState)

\* result_df['cluster_id'] = cluster_labels
WithClusterId(d, labels) ==
    [i \in 1..Len(d) |->
        [skill |-> d[i].skill, employee_count |-> d[i].employee_count,
         avg_proficiency |-> d[i].avg_proficiency,
         avg_experience |-> d[i].avg_experience, cluster_id |-> labels[i]]]

Members(rd, c) == {i \in 1..Len(rd) : rd[i].cluster_id = c}

RECURSIVE SumUpTo(_, _, _, _)
SumUpTo(rd, S, f, i) ==
    IF i = 0 THEN 0
    ELSE (IF i \in S THEN rd[i][f] ELSE 0) + SumUpTo(rd, S, f, i - 1)

\* the sum of column f over the rows whose index is in S
SumOver(rd, S, f) == SumUpTo(rd, S, f, Len(rd))

CountEmployees(rd, c) == SumOver(rd, Members(rd, c), "employee_count")

\* 'skill': 'count'
CountSkills(rd, c) == Cardinality(Members(rd, c))

\* one group of the groupby: the statistics row of cluster c
StatsRow(rd, c) ==
    [cluster_id |-> c,
     num_skills |-> CountSkills(rd, c),
     total_employees |-> SumOver(rd, Members(rd, c), "employee_count"),
     avg_cluster_proficiency |->
         [sum |-> SumOver(rd, Members(rd, c), "avg_proficiency"),
          count |-> Cardinality(Members(rd, c))],
     avg_cluster_experience |->
         [sum |-> SumOver(rd, Members(rd, c), "avg_experience"),
          count |-> Cardinality(Members(rd, c))]]

ClusterIds(rd) == {rd[i].cluster_id : i \in 1..Len(rd)}

\* result_df.groupby('cluster_id').agg({...}).reset_index(): one row per
\* cluster_id, in ascending order of cluster_id
ClusterStats(rd) ==
    [j \in 1..Cardinality(ClusterIds(rd)) |->
        The({StatsRow(rd, c) : c \in {x \in ClusterIds(rd) : Rank(ClusterIds(rd), x) = j}})]

\* the dictionary perform_clustering returns
ClusteringResult(result_df, cluster_stats, cluster_labels, best_score) ==
    [skills |-> result_df,
     cluster_stats |-> cluster_stats,
     cluster_labels |-> cluster_labels,
     silhouette_score |-> best_score]

\* the cluster counts whose score the search reads on X
HandlerNeeds(X) ==
    {NumClusters(X, k) : k \in HandlerSearch(X, KStart, DefaultK, InitBestScore,
                                             LowestScores).scored}

\* silhouette_score is a function: a partition scored before keeps its score
Extends(sil, needs) ==
    {s \in [needs \cup DOMAIN sil -> ScoreSet] : \A c \in DOMAIN sil : s[c] = sil[c]}

----------------------------------------------------------------------------
(* lambda_handler *)

Terminal == {"SUCCEEDED", "FAILED", "CANCELLED"}

IsTerminalButCancelled(s) == s \in {"SUCCEEDED", "FAILED"}

\* if state in ['SUCCEEDED', 'FAILED', 'CANCELLED']: break
IsTerminal(s) == s \in Terminal

\* except Exception as e: return {'statusCode': 500, ...}
Fail(msg) ==
    /\ error' = msg
    /\ response' = {[statusCode |-> 500, error |-> msg]}
    /\ pc' = "done"

Init ==
    /\ prog = "lambda"
    /\ table \in Tables
    /\ athena = "NONE"
    /\ pc = "idle"
    /\ run = 0
    /\ state = "NONE"
    /\ df = {}
    /\ prepared = {}
    /\ clusters = {}
    /\ search = {}
    /\ scores = <<>>
    /\ loop_labels = <<>>
    /\ silhouette = <<>>
    /\ sink = {}
    /\ response = {}
    /\ error = "none"
    /\ prev = {}
    /\ records = <<>>
    /\ trained = {}

\* an invocation: lambda_handler starts and submits the query.  The trigger
\* fires once, and once more on the same snapshot after a run that clustered.
Invoke ==
    /\ prog = "lambda"
    /\ \/ pc = "idle"
       \/ pc = "done" /\ prev = {} /\ clusters # {}
    /\ run' = run + 1
    /\ athena' = "QUEUED"
    /\ pc' = "poll"
    /\ state' = "NONE"
    /\ df' = {}
    /\ prepared' = {}
    /\ clusters' = {}
    /\ search' = {}
    /\ scores' = <<>>
    /\ loop_labels' = <<>>
    /\ response' = {}
    /\ error' = "none"
    /\ prev' = {[clusters |-> c, search |-> f] : c \in clusters, f \in search}
    /\ UNCHANGED <<prog, table, silhouette, sink, records, trained>>

\* Athena runs the query (the environment)
AthenaStep ==
    /\ prog = "lambda"
    /\ \/ athena = "QUEUED" /\ athena' \in {"RUNNING", "FAILED", "CANCELLED"}
       \/ athena = "RUNNING" /\ athena' \in Terminal
    /\ UNCHANGED <<prog, table, pc, run, state, df, prepared, clusters, search, scores,
                   loop_labels, silhouette, sink, response, error, prev, records,
                   trained>>

\* one iteration of `while True`
Poll ==
    /\ prog = "lambda"
    /\ pc = "poll"
    /\ state' = athena
    /\ pc' = IF IsTerminal(athena) THEN "polled" ELSE "poll"
    /\ UNCHANGED <<prog, table, athena, run, df, prepared, clusters, search, scores,
                   loop_labels, silhouette, sink, response, error, prev, records,
                   trained>>

\* after the loop: raise unless SUCCEEDED, else fetch and parse the results
FetchResults ==
    /\ prog = "lambda"
    /\ pc = "polled"
    /\ IF state # "SUCCEEDED"
       THEN Fail("Athena query failed") /\ df' = df
       ELSE /\ df' = {ParseResults(QueryResults(table))}
            /\ pc' = "prepare"
            /\ UNCHANGED <<error, response>>
    /\ UNCHANGED <<prog, table, athena, run, state, prepared, clusters, search, scores,
                   loop_labels, silhouette, sink, prev, records, trained>>

Prepare ==
    /\ prog = "lambda"
    /\ pc = "prepare"
    /\ IF ScalerRaises(The(df))
       THEN Fail("ValueError") /\ prepared' = prepared
       ELSE /\ prepared' = {PrepareClusteringData(The(df))}
            /\ pc' = "cluster"
            /\ UNCHANGED <<error, response>>
    /\ UNCHANGED <<prog, table, athena, run, state, df, clusters, search, scores,
                   loop_labels, silhouette, sink, prev, records, trained>>

\* perform_clustering, the loop: best_k = 5, best_score = -1, for k in ...
SearchK ==
    /\ prog = "lambda"
    /\ pc = "cluster"
    /\ \E X \in {The(prepared).features} :
       \E sil \in Extends(silhouette, HandlerNeeds(X)) :
       /\ silhouette' = sil
       /\ \E found \in {HandlerSearch(X, KStart, DefaultK, InitBestScore, sil)} :
          /\ scores' = [k \in found.scored |-> sil[NumLabels(LoopFit(X, k))]]
          /\ loop_labels' = [k \in found.scored |-> LoopFit(X, k)]
          /\ search' = {[best_k |-> found.best_k, best_score |-> found.best_score]}
          /\ IF found.error # "none"
             THEN Fail(found.error)
             ELSE pc' = "final_fit" /\ UNCHANGED <<error, response>>
    /\ UNCHANGED <<prog, table, athena, run, state, df, prepared, clusters, sink, prev,
                   records, trained>>

\* perform_clustering, after the loop: the final fit and the statistics
Cluster ==
    /\ prog = "lambda"
    /\ pc = "final_fit"
    /\ \E data \in prepared : \E found \in search :
       \E cluster_labels \in {FinalFit(data.features, found.best_k)} :
       \E result_df \in {WithClusterId(data.original_data, cluster_labels)} :
       \E cluster_stats \in {ClusterStats(result_df)} :
          clusters' = {ClusteringResult(result_df, cluster_stats, cluster_labels,
                                        found.best_score)}
    /\ pc' = "put_skills"
    /\ UNCHANGED <<prog, table, athena, run, state, df, prepared, search, scores,
                   loop_labels, silhouette, sink, response, error, prev, records,
                   trained>>

\* s3_client.put_object: succeeds and stores the object, or raises
PutObject(key, body, next) ==
    /\ \E ok \in BOOLEAN :
         IF ok
         THEN /\ sink' = sink \cup {[run |-> run, key |-> key, body |-> body]}
              /\ pc' = next
              /\ UNCHANGED <<error, response>>
         ELSE Fail("ClientError") /\ sink' = sink
    /\ UNCHANGED <<prog, table, athena, run, state, df, prepared, clusters, search,
                   scores, loop_labels, silhouette, prev, records, trained>>

PutSkills ==
    /\ prog = "lambda"
    /\ pc = "put_skills"
    /\ PutObject("skill_clusters", The(clusters).skills, "put_stats")

PutStats ==
    /\ prog = "lambda"
    /\ pc = "put_stats"
    /\ PutObject("cluster_stats", The(clusters).cluster_stats, "put_summary")

Summary(c) ==
    [num_clusters |-> Len(c.cluster_stats),
     num_skills |-> Len(c.skills),
     silhouette_score |-> c.silhouette_score]

PutSummary ==
    /\ prog = "lambda"
    /\ pc = "put_summary"
    /\ PutObject("clustering_summary", Summary(The(clusters)), "return")

Return ==
    /\ prog = "lambda"
    /\ pc = "return"
    /\ response' = {[statusCode |-> 200,
                     num_clusters |-> NumLabels(The(clusters).cluster_labels),
                     num_skills |-> Len(The(clusters).skills)]}
    /\ pc' = "done"
    /\ UNCHANGED <<prog, table, athena, run, state, df, prepared, clusters, search,
                   scores, loop_labels, silhouette, sink, error, prev, records,
                   trained>>

Next ==
    \/ Invoke
    \/ AthenaStep
    \/ Poll
    \/ FetchResults
    \/ Prepare
    \/ SearchK
    \/ Cluster
    \/ PutSkills
    \/ PutStats
    \/ PutSummary
    \/ Return

Spec == Init /\ [][Next]_vars

\* the handler is sequential code that keeps running; Athena owes nothing
HandlerStep ==
    Poll \/ FetchResults \/ Prepare \/ SearchK \/ Cluster \/ PutSkills \/ PutStats \/ PutSummary
    \/ Return

FairSpec == Spec /\ WF_vars(HandlerStep)

----------------------------------------------------------------------------
(* train_clustering.py: train_kmeans and __main__ *)

\* for k in n_clusters_range: fit; score unless the labels form one cluster
RECURSIVE TrainSearch(_, _, _, _, _, _)
TrainSearch(X, k, best_k, best_score, best_model, sil) ==
    IF k >= TrainKStop
    THEN [best_k |-> best_k, best_score |-> best_score, best_model |-> best_model,
          error |-> "none", scored |-> {}, skipped |-> {}]
    ELSE IF KMeansRaises(X, k)
    THEN [best_k |-> best_k, best_score |-> best_score, best_model |-> best_model,
          error |-> "ValueError", scored |-> {}, skipped |-> {}]
    ELSE IF NumLabels(LoopFit(X, k)) > 1
    THEN IF SilhouetteRaises(X, LoopFit(X, k))
         THEN [best_k |-> best_k, best_score |-> best_score,
               best_model |-> best_model, error |-> "ValueError",
               scored |-> {}, skipped |-> {}]
         ELSE LET score == sil[NumLabels(LoopFit(X, k))]
                  rest == IF Improves(score, best_score)
                          THEN TrainSearch(X, k + 1, k, score,
                                           {[n_clusters |-> k, labels |-> LoopFit(X, k)]},
                                           sil)
                          ELSE TrainSearch(X, k + 1, best_k, best_score, best_model, sil)
              IN [rest EXCEPT !.scored = @ \cup {k}]
    ELSE LET rest == TrainSearch(X, k + 1, best_k, best_score, best_model, sil)
         IN [rest EXCEPT !.skipped = @ \cup {k}]

\* train_kmeans(features): best_k = 5, best_score = -1, best_model = None
TrainKMeans(X, sil) == TrainSearch(X, KStart, DefaultK, InitBestScore, {}, sil)

TrainNeeds(X) == {NumClusters(X, k) : k \in TrainKMeans(X, LowestScores).scored}

\* an uncaught exception ends the script
Crash(msg) ==
    /\ error' = msg
    /\ pc' = "done"

TrainInit ==
    /\ prog = "train"
    /\ table \in TrainTables
    /\ athena = "NONE"
    /\ pc = "scale"
    /\ run = 0
    /\ state = "NONE"
    /\ df = {}
    /\ prepared = {}
    /\ clusters = {}
    /\ search = {}
    /\ scores = <<>>
    /\ loop_labels = <<>>
    /\ silhouette = <<>>
    /\ sink = {}
    /\ response = {}
    /\ error = "none"
    /\ prev = {}
    /\ records = <<>>
    /\ trained = {}

\* scaler = StandardScaler(); numeric_scaled = scaler.fit_transform(...)
TrainScale ==
    /\ prog = "train"
    /\ pc = "scale"
    /\ IF ScalerRaises(table)
       THEN Crash("ValueError") /\ prepared' = prepared
       ELSE /\ prepared' = {FitTransform(table)}
            /\ pc' = "train"
            /\ error' = error
    /\ UNCHANGED <<prog, table, athena, run, state, df, clusters, search, scores,
                   loop_labels, silhouette, sink, response, prev, records, trained>>

\* model, best_k, score = train_kmeans(features)
Train ==
    /\ prog = "train"
    /\ pc = "train"
    /\ \E X \in prepared :
       \E sil \in Extends(silhouette, TrainNeeds(X)) :
       /\ silhouette' = sil
       /\ \E found \in {TrainKMeans(X, sil)} :
               /\ scores' = [k \in found.scored |-> sil[NumLabels(LoopFit(X, k))]]
               /\ loop_labels' = [k \in found.scored \cup found.skipped |-> LoopFit(X, k)]
               /\ IF found.error # "none"
                  THEN Crash(found.error) /\ trained' = trained
                  ELSE /\ trained' = {[model |-> found.best_model,
                                       best_k |-> found.best_k,
                                       score |-> found.best_score]}
                       /\ pc' = "save"
                       /\ error' = error
    /\ UNCHANGED <<prog, table, athena, run, state, df, prepared, clusters, search,
                   sink, response, prev, records>>

\* save_model(model, scaler, tfidf, output_path): joblib.dump of each object
SaveModel ==
    /\ prog = "train"
    /\ pc = "save"
    /\ sink' = sink \cup {[run |-> run, key |-> "clustering_model.pkl",
                          body |-> The(trained).model]}
    /\ pc' = "done"
    /\ UNCHANGED <<prog, table, athena, run, state, df, prepared, clusters, search,
                   scores, loop_labels, silhouette, response, error, prev, records,
                   trained>>

TrainNext ==
    \/ TrainScale
    \/ Train
    \/ SaveModel

TrainSpec == TrainInit /\ [][TrainNext]_vars

\* either program: both carry the same k-search loop
SearchInit == Init \/ TrainInit

SearchNext == Next \/ TrainNext

SearchSpec == SearchInit /\ [][SearchNext]_vars

----------------------------------------------------------------------------
(* Feature building: create_skill_features and the Athena aggregation *)

Employees == 1..MaxEmployees

SkillNames == 1..MaxNames

RecordSet ==
    [employee_id : Employees, skill : SkillNames,
     proficiency_score : {Beginner, Expert}, years_experience : {0, MaxYears}]

RecordSeqs == UNION {[1..n -> RecordSet] : n \in 0..MaxRecords}

Group(rs, sk) == {i \in 1..Len(rs) : rs[i].skill = sk}

SkillsOf(rs) == SetToSeq({rs[i].skill : i \in 1..Len(rs)})

\* 'employee_id': 'count' -- the number of rows of the group
CountRows(rs, sk) == Cardinality(Group(rs, sk))

\* COUNT(DISTINCT employee_id)
CountDistinct(rs, sk) == Cardinality({rs[i].employee_id : i \in Group(rs, sk)})

\* a mean is kept exactly, as sum and count
MeanOf(rs, sk, f) == [sum |-> SumOver(rs, Group(rs, sk), f), count |-> Cardinality(Group(rs, sk))]

\* df.groupby('skill').agg({...}).reset_index()
CreateSkillFeatures(rs) ==
    LET sks == SkillsOf(rs)
    IN [j \in 1..Len(sks) |->
           [skill |-> sks[j],
            employee_count |-> CountRows(rs, sks[j]),
            avg_proficiency |-> MeanOf(rs, sks[j], "proficiency_score"),
            avg_experience |-> MeanOf(rs, sks[j], "years_experience")]]

\* SELECT skill, COUNT(DISTINCT employee_id), AVG(..), AVG(..) GROUP BY skill
AthenaAggregate(rs) ==
    LET sks == SkillsOf(rs)
    IN [j \in 1..Len(sks) |->
           [skill |-> sks[j],
            employee_count |-> CountDistinct(rs, sks[j]),
            avg_proficiency |-> MeanOf(rs, sks[j], "proficiency_score"),
            avg_experience |-> MeanOf(rs, sks[j], "years_experience")]]

FeatureInit ==
    /\ prog = "features"
    /\ records \in RecordSeqs
    /\ table = {}
    /\ athena = "NONE"
    /\ pc = "load"
    /\ run = 0
    /\ state = "NONE"
    /\ df = {}
    /\ prepared = {}
    /\ clusters = {}
    /\ search = {}
    /\ scores = <<>>
    /\ loop_labels = <<>>
    /\ silhouette = <<>>
    /\ sink = {}
    /\ response = {}
    /\ error = "none"
    /\ prev = {}
    /\ trained = {}

\* skill_data, numeric_features, ... = create_skill_features(df)
CreateFeatures ==
    /\ prog = "features"
    /\ table = {}
    /\ table' = {CreateSkillFeatures(records)}
    /\ UNCHANGED <<prog, athena, pc, run, state, df, prepared, clusters, search, scores,
                   loop_labels, silhouette, sink, response, error, prev, records,
                   trained>>

\* the query of query_skills_from_athena, run over the same records
RunQuery ==
    /\ prog = "features"
    /\ df = {}
    /\ df' = {AthenaAggregate(records)}
    /\ UNCHANGED <<prog, table, athena, pc, run, state, prepared, clusters, search,
                   scores, loop_labels, silhouette, sink, response, error, prev,
                   records, trained>>

FeatureNext ==
    \/ CreateFeatures
    \/ RunQuery

FeatureSpec == FeatureInit /\ [][FeatureNext]_vars

----------------------------------------------------------------------------
(* Properties of lambda_handler (Spec, FairSpec) *)

Candidates == KStart..(KStop - 1)

\* the objects this invocation put into the sink
RunObjects == {o \in sink : o.run = run}

HasFlatDimension(d) ==
    Len(d) > 0 /\ \E j \in 1..Len(Features) : ZeroVariance(Column(d, Features[j]))

\* best_k is the smallest scored candidate holding the maximum score
IsSmallestBest(best_k, best_score) ==
    /\ best_k \in DOMAIN scores
    /\ best_score = scores[best_k]
    /\ \A k \in DOMAIN scores :
          /\ scores[k] <= scores[best_k]
          /\ scores[k] = scores[best_k] => best_k <= k

\* C1: the k-search of perform_clustering and of train_kmeans selects the
\* smallest k whose score is the maximum over the scored candidates (a later
\* candidate wins only with a strictly higher score).
C1_SmallestBestK ==
    /\ \A c \in clusters : \A f \in search :
          IsSmallestBest(f.best_k, f.best_score)
    /\ \A t \in trained :
          DOMAIN scores # {} => IsSmallestBest(t.best_k, t.score)

\* a finished search in which the winner replaced an earlier candidate and a
\* later candidate tied with it
C1_Witness ==
    \E c \in clusters : \E f \in search :
        /\ DOMAIN scores = Candidates
        /\ f.best_k > KStart
        /\ \E k \in DOMAIN scores : k > f.best_k /\ scores[k] = scores[f.best_k]

\* C3: when lambda_handler has returned, the sink holds all three artifacts
\* of the run or none of them.
C3_AllOrNothing ==
    pc = "done" => Cardinality(RunObjects) \in {0, 3}

\* C4: every skill is in exactly one assignment row, every cluster_id of the
\* assignments is in exactly one statistics row, and the num_skills of the
\* statistics rows add up to the number of distinct skills.
C4_Consistent ==
    \A c \in clusters :
        LET rows == c.skills
            stats == c.cluster_stats
            input == The(df)
        IN /\ \A i \in 1..Len(input) :
                 Cardinality({j \in 1..Len(rows) : rows[j].skill = input[i].skill}) = 1
           /\ \A j \in 1..Len(rows) : rows[j].cluster_id = c.cluster_labels[j]
           /\ \A j \in 1..Len(rows) :
                 Cardinality({h \in 1..Len(stats) :
                                 stats[h].cluster_id = rows[j].cluster_id}) = 1
           /\ SumSeq([h \in 1..Len(stats) |-> stats[h].num_skills])
                 = Cardinality({input[i].skill : i \in 1..Len(input)})

\* a result with at least three clusters, one of them holding several skills
\* held by more than one employee each
C4_Witness ==
    \E c \in clusters :
        /\ Len(c.cluster_stats) >= 3
        /\ \E h \in 1..Len(c.cluster_stats) :
              /\ c.cluster_stats[h].num_skills >= 2
              /\ c.cluster_stats[h].total_employees > c.cluster_stats[h].num_skills

\* C5: with a zero-variance feature dimension, scaling fails with
\* DegenerateFeatureError and the run produces no scaled vectors, no
\* assignments and no stored output.
C5_DegenerateAborts ==
    (df # {} /\ pc # "prepare" /\ HasFlatDimension(The(df)))
        => /\ error = "DegenerateFeatureError"
           /\ prepared = {}
           /\ clusters = {}
           /\ RunObjects = {}

C8_EmptyData ==
    (pc = "done" /\ state = "SUCCEEDED" /\ df # {} /\ Len(The(df)) = 0)
        => \E r \in response : r.statusCode \in {200, 400}

AfterQuery == {"prepare", "cluster", "final_fit", "put_skills", "put_stats", "put_summary", "return"}

C10_Safety ==
    /\ (pc \in AfterQuery \/ df # {} \/ clusters # {} \/ RunObjects # {})
          => state = "SUCCEEDED"
    /\ pc \in {"polled", "done"} \cup AfterQuery => state \in Terminal
    /\ (pc = "done" /\ state \in {"FAILED", "CANCELLED"})
          => /\ \E r \in response : r.statusCode = 500
             /\ RunObjects = {}

\* C10: results are fetched, clustered and stored only after SUCCEEDED was
\* observed; FAILED or CANCELLED gives statusCode 500 and no write; the
\* polling loop exits only on a terminal state, and once the query is in a
\* terminal state the handler eventually returns.
C10_QueryGating ==
    /\ []C10_Safety
    /\ (pc # "idle" /\ athena \in Terminal) ~> (pc = "done")

\* a run that returned 500 after observing CANCELLED
C10_Witness ==
    /\ pc = "done"
    /\ state = "CANCELLED"
    /\ \E r \in response : r.statusCode = 500

----------------------------------------------------------------------------
(* Properties of train_kmeans (TrainSpec) *)

TrainCandidates == KStart..(TrainKStop - 1)

\* every candidate of the range was fitted and none was scored
AllSkipped == DOMAIN loop_labels = TrainCandidates /\ DOMAIN scores = {}

\* C2: when every candidate k is skipped, the selection fails with
\* InsufficientDataError and returns no default k, score or absent model.
C2_InsufficientData ==
    AllSkipped => (error = "InsufficientDataError" /\ trained = {})

\* C9: a score is computed only for a partition with at least 2 non-empty
\* clusters, and a candidate with fewer is skipped and never selected.
C9_SkippedNeverSelected ==
    /\ \A k \in DOMAIN scores : NumLabels(loop_labels[k]) >= 2
    /\ \A t \in trained :
          /\ t.best_k \in DOMAIN scores
          /\ NumLabels(loop_labels[t.best_k]) >= 2

----------------------------------------------------------------------------
(* Properties of feature building (FeatureSpec) *)

\* C6: one feature vector per distinct skill, whose employee_count is the
\* number of distinct employee_id values among the records of the skill.
C6_DistinctEmployees ==
    \A t \in table :
        /\ \A sk \in {records[i].skill : i \in 1..Len(records)} :
              Cardinality({j \in 1..Len(t) : t[j].skill = sk}) = 1
        /\ \A j \in 1..Len(t) :
              t[j].employee_count = CountDistinct(records, t[j].skill)

====
